---------------------------- MODULE Spec2Model ----------------------------
(***************************************************************************)
(* A model of Deviot's Messages (libraries/messages.py) and ProjectCheck   *)
(* (libraries/project_check.py).                                           *)
(*                                                                         *)
(* Strings are sequences of one-character strings, so that str.replace,    *)
(* str.strip and the substring test `in` are computed as Python computes   *)
(* them.  CR, LF and BS stand for carriage return, line feed and the       *)
(* backslash character.                                                    *)
(***************************************************************************)
EXTENDS Integers, Sequences, FiniteSets, TLC

CR == "CR"
LF == "LF"
BS == "BS"

\* Bounds of the model.
MaxPrints == 2      \* print calls made by the producer threads
MaxLen == 4         \* length of the strings given to the newline normalization

Handlers == {"h1", "h2"}          \* Messages instances
Threads == {"t1", "t2"}           \* producer threads calling print
\* The contexts on which the host runs the callbacks given to set_timeout. The
\* host documents one UI thread; the model lets two callbacks run at once, so
\* that what is shown of service_text_queue rests on the lock the code takes
\* and not on the host's scheduling.
Runners == {"ui1", "ui2"}
Procs == Threads \cup Runners

None == <<"none", 0>>             \* Python's None, as a view reference
DeviotView == <<"panel", 0>>      \* the window's output panel 'deviot'
Free == "free"                    \* the lock, not held
NoHandler == "none"               \* no call in progress

-----------------------------------------------------------------------------
(* Pure string functions *)

\* s[i..] starts with pat
StartsWith(s, i, pat) ==
    /\ i + Len(pat) - 1 <= Len(s)
    /\ \A k \in 1..Len(pat) : s[i + k - 1] = pat[k]

\* str.replace(pat, rep) for a non-empty pat: left to right, non-overlapping
RECURSIVE ReplaceFrom(_, _, _, _)
ReplaceFrom(s, i, pat, rep) ==
    IF i > Len(s) THEN <<>>
    ELSE IF StartsWith(s, i, pat)
         THEN rep \o ReplaceFrom(s, i + Len(pat), pat, rep)
         ELSE <<s[i]>> \o ReplaceFrom(s, i + 1, pat, rep)

Replace(s, pat, rep) == ReplaceFrom(s, 1, pat, rep)

\* a faulty variant: bare CR replaced before CR LF
NormalizeCrFirst(text) ==
    Replace(Replace(Replace(text, <<CR>>, <<LF>>), <<CR, LF>>, <<LF>>), <<BS, "n">>, <<LF>>)

\* send_to_file, line 174
Normalize(text) ==
    Replace(Replace(Replace(text, <<CR, LF>>, <<LF>>), <<CR>>, <<LF>>), <<BS, "n">>, <<LF>>)

-----------------------------------------------------------------------------
(* State *)

VARIABLES
    \* class Messages, lines 45-49: text_queue and text_queue_lock are class
    \* attributes, one deque and one lock shared by every instance
    text_queue,         \* the deque of pending fragments
    text_queue_lock,    \* Free, or the process that holds the lock
    \* instance attributes, lines 51-55, and the class default window = None
    output_view,        \* handler -> view, or NoView
    name,               \* handler -> _name, or NoName
    init_text,          \* handler -> _init_text, or NoText
    window,             \* handler -> "w", or "None"
    \* module global, line 40
    session,            \* panel name -> handler (a function on the registered names)
    \* the host editor
    timeouts,           \* handler -> number of scheduled service_text_queue callbacks
    views,              \* view -> [open, name, read_only, at_eof]
    groups,             \* the window's layout: a sequence of sets of views
    \* the processes: producer threads and callback contexts
    pc,                 \* process -> its position
    self,               \* process -> the handler its call is on
    text,               \* thread -> the fragment print holds
    characters,         \* runner -> the fragment service_text_queue popped
    is_empty,           \* runner -> service_text_queue's local is_empty
    \* history
    enqueued,           \* the fragments in the order they were appended
    written,            \* the appends the sinks received: [view, id, chars]
    nprints,            \* print calls made
    ncalls,             \* panel operations made
    last,               \* the last panel operation: <<operation, handler>>
    nscheduled,         \* callbacks given to sublime.set_timeout so far
    owner,              \* fragment id -> the handler whose print made it
    \* the newline normalization taken alone
    norm_in, norm_out,
    \* ProjectCheck and its environment
    pio_structure, file_path, project_path, files, dirs, open_file, config,
    ext, iot, ppc

msgVars == <<text_queue, text_queue_lock, timeouts>>
handlerVars == <<output_view, name, init_text, window, session>>
hostVars == <<views, groups>>
procVars == <<pc, self, text, characters, is_empty>>
histVars == <<enqueued, written, nprints, ncalls, last, nscheduled, owner>>
normVars == <<norm_in, norm_out>>
projVars == <<pio_structure, file_path, project_path, files, dirs, open_file,
              config, ext, iot, ppc>>
vars == <<msgVars, handlerVars, hostVars, procVars, histVars, normVars, projVars>>

NoView == None
NoName == <<"None">>
NoText == <<"None">>
NoFragment == [id |-> 0, type |-> "str", chars |-> <<>>]

MaxViews == 2       \* file views the host creates
FileViews == {<<"file", i>> : i \in 1..MaxViews}
ViewIds == {DeviotView} \cup FileViews
SketchView == <<"sketch", 0>>     \* the user's own file, open in the first group
AllViews == ViewIds \cup {SketchView}
\* a view the host has not created yet; on_close: the close has been reported
AbsentView == [created |-> FALSE, open |-> FALSE, name |-> <<>>, read_only |-> FALSE,
               at_eof |-> TRUE, on_close |-> FALSE]
OpenView == [AbsentView EXCEPT !.created = TRUE, !.open = TRUE]

-----------------------------------------------------------------------------
(* The external collaborators print uses *)

\* I18n().translate: a key of the catalogue gives its text, any other text is
\* returned as it is
Catalog == [k \in {<<"k">>} |-> <<"a", BS, "n">>]
Translate(t) ==
    IF t.chars \in DOMAIN Catalog THEN [t EXCEPT !.chars = Catalog[t.chars]] ELSE t

\* the arguments print is called with: [type, chars]
PrintArgs == { [type |-> "str", chars |-> <<"k">>],
               [type |-> "bytes", chars |-> <<"b", CR, LF>>] }

\* bytes.decode('utf-8'), lines 140-141 (the bytes of the model are ASCII)
Decode(t) == IF t.type = "bytes" THEN [t EXCEPT !.type = "str"] ELSE t

-----------------------------------------------------------------------------
(* Messages.print, lines 131-146, one call per thread at a time *)

\* line 136: the call starts, the text is translated before the lock is taken
PrintCall(t, h, a) ==
    /\ pc[t] = "idle"
    /\ nprints < MaxPrints
    /\ nprints' = nprints + 1
    /\ text' = [text EXCEPT ![t] = [id |-> nprints + 1] @@ Translate(a)]
    /\ self' = [self EXCEPT ![t] = h]
    /\ owner' = Append(owner, h)
    /\ pc' = [pc EXCEPT ![t] = "print_acquire"]
    /\ UNCHANGED <<msgVars, handlerVars, hostVars, characters, is_empty,
                   enqueued, written, ncalls, last, nscheduled, normVars, projVars>>

\* a faulty variant: print goes on to the append without taking the lock
PrintAcquireNoLock(t) ==
    /\ pc[t] = "print_acquire"
    /\ pc' = [pc EXCEPT ![t] = "print_append"]
    /\ UNCHANGED <<msgVars, handlerVars, hostVars, self, text,
                   characters, is_empty, histVars, normVars, projVars>>

\* line 138: text_queue_lock.acquire() waits until the lock is free
PrintAcquire(t) ==
    /\ pc[t] = "print_acquire"
    /\ text_queue_lock = Free
    /\ text_queue_lock' = t
    /\ pc' = [pc EXCEPT ![t] = "print_append"]
    /\ UNCHANGED <<text_queue, timeouts, handlerVars, hostVars, self, text,
                   characters, is_empty, histVars, normVars, projVars>>

\* lines 140-142: decode bytes, append to the deque
PrintAppend(t) ==
    /\ pc[t] = "print_append"
    /\ text_queue' = Append(text_queue, Decode(text[t]))
    /\ enqueued' = Append(enqueued, Decode(text[t]))
    /\ text' = [text EXCEPT ![t] = Decode(text[t])]
    /\ pc' = [pc EXCEPT ![t] = "print_release"]
    /\ UNCHANGED <<text_queue_lock, timeouts, handlerVars, hostVars, self,
                   characters, is_empty, written, nprints, ncalls, last, nscheduled,
                   owner, normVars, projVars>>

\* lines 143-144: finally: text_queue_lock.release()
PrintRelease(t) ==
    /\ pc[t] = "print_release"
    /\ text_queue_lock' = Free
    /\ pc' = [pc EXCEPT ![t] = "print_set_timeout"]
    /\ UNCHANGED <<text_queue, timeouts, handlerVars, hostVars, self, text,
                   characters, is_empty, histVars, normVars, projVars>>

\* a faulty variant: print asks for a callback only when none is pending
PrintSetTimeoutIfNone(t) ==
    /\ pc[t] = "print_set_timeout"
    /\ LET none == \A h \in Handlers : timeouts[h] = 0 IN
       /\ timeouts' = [timeouts EXCEPT ![self[t]] = IF none THEN @ + 1 ELSE @]
       /\ nscheduled' = IF none THEN nscheduled + 1 ELSE nscheduled
    /\ text' = [text EXCEPT ![t] = NoFragment]
    /\ self' = [self EXCEPT ![t] = NoHandler]
    /\ pc' = [pc EXCEPT ![t] = "idle"]
    /\ UNCHANGED <<text_queue, text_queue_lock, handlerVars, hostVars,
                   characters, is_empty, enqueued, written, nprints, ncalls, last,
                   owner, normVars, projVars>>

\* line 146: sublime.set_timeout(self.service_text_queue, 0)
PrintSetTimeout(t) ==
    /\ pc[t] = "print_set_timeout"
    /\ timeouts' = [timeouts EXCEPT ![self[t]] = @ + 1]
    /\ nscheduled' = nscheduled + 1
    /\ text' = [text EXCEPT ![t] = NoFragment]
    /\ self' = [self EXCEPT ![t] = NoHandler]
    /\ pc' = [pc EXCEPT ![t] = "idle"]
    /\ UNCHANGED <<text_queue, text_queue_lock, handlerVars, hostVars,
                   characters, is_empty, enqueued, written, nprints, ncalls, last,
                   owner, normVars, projVars>>

-----------------------------------------------------------------------------
(* Messages.service_text_queue, lines 148-168, and send_to_file, 170-178 *)

\* the host runs a scheduled callback self.service_text_queue of handler h
RunTimeout(r, h) ==
    /\ pc[r] = "idle"
    /\ timeouts[h] > 0
    /\ timeouts' = [timeouts EXCEPT ![h] = @ - 1]
    /\ self' = [self EXCEPT ![r] = h]
    /\ pc' = [pc EXCEPT ![r] = "svc_acquire"]
    /\ UNCHANGED <<text_queue, text_queue_lock, handlerVars, hostVars, text,
                   characters, is_empty, histVars, normVars, projVars>>

\* a faulty variant: the callback does not wait for the lock
ServiceAcquireNoWait(r) ==
    /\ pc[r] = "svc_acquire"
    /\ text_queue_lock' = r
    /\ is_empty' = [is_empty EXCEPT ![r] = FALSE]
    /\ pc' = [pc EXCEPT ![r] = "svc_pop"]
    /\ UNCHANGED <<text_queue, timeouts, handlerVars, hostVars, self, text,
                   characters, histVars, normVars, projVars>>

\* lines 152-154: acquire the lock, is_empty = False
ServiceAcquire(r) ==
    /\ pc[r] = "svc_acquire"
    /\ text_queue_lock = Free
    /\ text_queue_lock' = r
    /\ is_empty' = [is_empty EXCEPT ![r] = FALSE]
    /\ pc' = [pc EXCEPT ![r] = "svc_pop"]
    /\ UNCHANGED <<text_queue, timeouts, handlerVars, hostVars, self, text,
                   characters, histVars, normVars, projVars>>

\* a faulty variant: pop() takes the newest fragment instead of popleft()
ServicePopRight(r) ==
    /\ pc[r] = "svc_pop"
    /\ IF Len(text_queue) = 0
       THEN /\ pc' = [pc EXCEPT ![r] = "svc_return"]
            /\ UNCHANGED <<text_queue, characters, is_empty>>
       ELSE /\ characters' = [characters EXCEPT ![r] = text_queue[Len(text_queue)]]
            /\ text_queue' = SubSeq(text_queue, 1, Len(text_queue) - 1)
            /\ is_empty' = [is_empty EXCEPT ![r] = (Len(text_queue) = 1)]
            /\ pc' = [pc EXCEPT ![r] = "send_read_only_off"]
    /\ UNCHANGED <<text_queue_lock, timeouts, handlerVars, hostVars, self, text,
                   histVars, normVars, projVars>>

\* a faulty variant: the lock is released right after the pop, before the sink write
ServicePopReleaseEarly(r) ==
    /\ pc[r] = "svc_pop"
    /\ IF Len(text_queue) = 0
       THEN /\ pc' = [pc EXCEPT ![r] = "svc_return"]
            /\ UNCHANGED <<text_queue, text_queue_lock, characters, is_empty>>
       ELSE /\ characters' = [characters EXCEPT ![r] = Head(text_queue)]
            /\ text_queue' = Tail(text_queue)
            /\ is_empty' = [is_empty EXCEPT ![r] = (Len(Tail(text_queue)) = 0)]
            /\ text_queue_lock' = Free
            /\ pc' = [pc EXCEPT ![r] = "send_read_only_off"]
    /\ UNCHANGED <<timeouts, handlerVars, hostVars, self, text,
                   histVars, normVars, projVars>>

\* a faulty variant: is_empty is read before the popleft instead of after it
ServicePopEmptyBefore(r) ==
    /\ pc[r] = "svc_pop"
    /\ IF Len(text_queue) = 0
       THEN /\ pc' = [pc EXCEPT ![r] = "svc_return"]
            /\ UNCHANGED <<text_queue, characters, is_empty>>
       ELSE /\ characters' = [characters EXCEPT ![r] = Head(text_queue)]
            /\ text_queue' = Tail(text_queue)
            /\ is_empty' = [is_empty EXCEPT ![r] = (Len(text_queue) = 0)]
            /\ pc' = [pc EXCEPT ![r] = "send_read_only_off"]
    /\ UNCHANGED <<text_queue_lock, timeouts, handlerVars, hostVars, self, text,
                   histVars, normVars, projVars>>

\* lines 156-160: return on an empty deque, else popleft and read is_empty
ServicePop(r) ==
    /\ pc[r] = "svc_pop"
    /\ IF Len(text_queue) = 0
       THEN /\ pc' = [pc EXCEPT ![r] = "svc_return"]
            /\ UNCHANGED <<text_queue, characters, is_empty>>
       ELSE /\ characters' = [characters EXCEPT ![r] = Head(text_queue)]
            /\ text_queue' = Tail(text_queue)
            /\ is_empty' = [is_empty EXCEPT ![r] = (Len(Tail(text_queue)) = 0)]
            /\ pc' = [pc EXCEPT ![r] = "send_read_only_off"]
    /\ UNCHANGED <<text_queue_lock, timeouts, handlerVars, hostVars, self, text,
                   histVars, normVars, projVars>>

\* lines 174-175: normalize the newlines, output_view.set_read_only(False);
\* with output_view None the attribute access raises
SendReadOnlyOff(r) ==
    /\ pc[r] = "send_read_only_off"
    /\ characters' = [characters EXCEPT ![r].chars = Normalize(@)]
    /\ LET v == output_view[self[r]] IN
       IF v = NoView
       THEN /\ pc' = [pc EXCEPT ![r] = "svc_raise"]
            /\ UNCHANGED views
       ELSE /\ pc' = [pc EXCEPT ![r] = "send_append"]
            /\ views' = IF views[v].open
                        THEN [views EXCEPT ![v].read_only = FALSE]
                        ELSE views
    /\ UNCHANGED <<msgVars, handlerVars, groups, self, text, is_empty,
                   histVars, normVars, projVars>>

\* line 176: output_view.run_command('append', {'characters': text}); the host
\* appends to an open view that is not read-only
SendAppend(r) ==
    /\ pc[r] = "send_append"
    /\ LET v == output_view[self[r]] IN
       IF views[v].open /\ ~views[v].read_only
       THEN /\ written' = Append(written, [view |-> v, id |-> characters[r].id,
                                           chars |-> characters[r].chars])
            /\ views' = [views EXCEPT ![v].at_eof = FALSE]
       ELSE UNCHANGED <<written, views>>
    /\ pc' = [pc EXCEPT ![r] = "send_read_only_on"]
    /\ UNCHANGED <<msgVars, handlerVars, groups, self, text, characters, is_empty,
                   enqueued, nprints, ncalls, last, nscheduled, owner, normVars, projVars>>

\* line 177: output_view.set_read_only(True)
SendReadOnlyOn(r) ==
    /\ pc[r] = "send_read_only_on"
    /\ LET v == output_view[self[r]] IN
       views' = IF views[v].open THEN [views EXCEPT ![v].read_only = TRUE] ELSE views
    /\ pc' = [pc EXCEPT ![r] = "send_move_to"]
    /\ UNCHANGED <<msgVars, handlerVars, groups, self, text, characters, is_empty,
                   histVars, normVars, projVars>>

\* line 178: output_view.run_command("move_to", {"to": "eof"}); send_to_file returns
SendMoveTo(r) ==
    /\ pc[r] = "send_move_to"
    /\ LET v == output_view[self[r]] IN
       views' = IF views[v].open THEN [views EXCEPT ![v].at_eof = TRUE] ELSE views
    /\ pc' = [pc EXCEPT ![r] = "svc_finally"]
    /\ UNCHANGED <<msgVars, handlerVars, groups, self, text, characters, is_empty,
                   histVars, normVars, projVars>>

\* a faulty variant: the return of line 157 falls through to the re-arm of line 167
ServiceReleaseNoReturn(r) ==
    /\ pc[r] \in {"svc_return", "svc_raise", "svc_finally"}
    /\ text_queue_lock' = Free
    /\ pc' = [pc EXCEPT ![r] = IF pc[r] = "svc_raise" THEN "idle" ELSE "svc_rearm"]
    /\ characters' = [characters EXCEPT ![r] = NoFragment]
    /\ IF pc[r] # "svc_raise"
       THEN UNCHANGED <<self, is_empty>>
       ELSE /\ self' = [self EXCEPT ![r] = NoHandler]
            /\ is_empty' = [is_empty EXCEPT ![r] = FALSE]
    /\ UNCHANGED <<text_queue, timeouts, handlerVars, hostVars, text,
                   histVars, normVars, projVars>>

\* a faulty variant: the release is not in a finally clause, an error of
\* send_to_file leaves service_text_queue with the lock held
ServiceReleaseNoFinally(r) ==
    /\ pc[r] \in {"svc_return", "svc_raise", "svc_finally"}
    /\ text_queue_lock' = IF pc[r] = "svc_raise" THEN text_queue_lock ELSE Free
    /\ pc' = [pc EXCEPT ![r] = IF pc[r] = "svc_finally" THEN "svc_rearm" ELSE "idle"]
    /\ characters' = [characters EXCEPT ![r] = NoFragment]
    /\ IF pc[r] = "svc_finally"
       THEN UNCHANGED <<self, is_empty>>
       ELSE /\ self' = [self EXCEPT ![r] = NoHandler]
            /\ is_empty' = [is_empty EXCEPT ![r] = FALSE]
    /\ UNCHANGED <<text_queue, timeouts, handlerVars, hostVars, text,
                   histVars, normVars, projVars>>

\* lines 164-165: finally: text_queue_lock.release(), on the three ways out of
\* the try block: the return of line 157, an error of send_to_file, its end
ServiceRelease(r) ==
    /\ pc[r] \in {"svc_return", "svc_raise", "svc_finally"}
    /\ text_queue_lock' = Free
    /\ pc' = [pc EXCEPT ![r] = IF pc[r] = "svc_finally" THEN "svc_rearm" ELSE "idle"]
    /\ characters' = [characters EXCEPT ![r] = NoFragment]
    /\ IF pc[r] = "svc_finally"
       THEN UNCHANGED <<self, is_empty>>
       ELSE /\ self' = [self EXCEPT ![r] = NoHandler]
            /\ is_empty' = [is_empty EXCEPT ![r] = FALSE]
    /\ UNCHANGED <<text_queue, timeouts, handlerVars, hostVars, text,
                   histVars, normVars, projVars>>

\* lines 167-168: if not is_empty: sublime.set_timeout(self.service_text_queue, 1)
ServiceRearm(r) ==
    /\ pc[r] = "svc_rearm"
    /\ timeouts' = [timeouts EXCEPT ![self[r]] = IF is_empty[r] THEN @ ELSE @ + 1]
    /\ nscheduled' = IF is_empty[r] THEN nscheduled ELSE nscheduled + 1
    /\ self' = [self EXCEPT ![r] = NoHandler]
    /\ is_empty' = [is_empty EXCEPT ![r] = FALSE]
    /\ pc' = [pc EXCEPT ![r] = "idle"]
    /\ UNCHANGED <<text_queue, text_queue_lock, handlerVars, hostVars, text,
                   characters, enqueued, written, nprints, ncalls, last,
                   owner, normVars, projVars>>

-----------------------------------------------------------------------------
(* Initial states *)

\* the parts a specification leaves alone
InitProcs ==
    /\ pc = [p \in Procs |-> "idle"]
    /\ self = [p \in Procs |-> NoHandler]
    /\ text = [t \in Threads |-> NoFragment]
    /\ characters = [r \in Runners |-> NoFragment]
    /\ is_empty = [r \in Runners |-> FALSE]

InitQueue ==
    /\ text_queue = <<>>
    /\ text_queue_lock = Free
    /\ timeouts = [h \in Handlers |-> 0]
    /\ enqueued = <<>>
    /\ written = <<>>
    /\ nprints = 0
    /\ ncalls = 0
    /\ last = <<"none", NoHandler>>
    /\ nscheduled = 0
    /\ owner = <<>>

NormUnused == norm_in = <<>> /\ norm_out = <<>>

ProjUnused ==
    /\ pio_structure = FALSE
    /\ file_path = <<>>
    /\ project_path = <<>>
    /\ files = {}
    /\ dirs = {}
    /\ open_file = <<>>
    /\ config = <<>>
    /\ ext = ""
    /\ iot = "unset"
    /\ ppc = "unused"

\* Two handlers after create_panel: h1 writes to the output panel, h2 to the
\* file view it created under the name "B"
InitBound ==
    /\ InitProcs /\ InitQueue /\ NormUnused /\ ProjUnused
    /\ output_view = [h \in Handlers |-> IF h = "h1" THEN DeviotView ELSE <<"file", 1>>]
    /\ name = [h \in Handlers |-> IF h = "h1" THEN NoName ELSE <<"B">>]
    /\ init_text = [h \in Handlers |-> NoText]
    /\ window = [h \in Handlers |-> "w"]
    /\ session = [n \in {<<"B">>} |-> "h2"]
    /\ views = [v \in AllViews |->
                  IF v \in {DeviotView, SketchView} THEN OpenView
                  ELSE IF v = <<"file", 1>>
                       THEN [OpenView EXCEPT !.name = <<"B">>]
                       ELSE AbsentView]
    /\ groups = << {SketchView}, {<<"file", 1>>} >>

PrintStep ==
    \/ \E t \in Threads, h \in Handlers, a \in PrintArgs : PrintCall(t, h, a)
    \/ \E t \in Threads : PrintAcquire(t)
    \/ \E t \in Threads : PrintAppend(t)
    \/ \E t \in Threads : PrintRelease(t)
    \/ \E t \in Threads : PrintSetTimeout(t)

ServiceStep ==
    \/ \E r \in Runners, h \in Handlers : RunTimeout(r, h)
    \/ \E r \in Runners : ServiceAcquire(r)
    \/ \E r \in Runners : ServicePop(r)
    \/ \E r \in Runners : SendReadOnlyOff(r)
    \/ \E r \in Runners : SendAppend(r)
    \/ \E r \in Runners : SendReadOnlyOn(r)
    \/ \E r \in Runners : SendMoveTo(r)
    \/ \E r \in Runners : ServiceRelease(r)
    \/ \E r \in Runners : ServiceRearm(r)

\* print from any thread, callbacks on the host's contexts, every sink bound
Next == PrintStep \/ ServiceStep

Spec == InitBound /\ [][Next]_vars

\* the steps of a print call that has begun
PrintProgress ==
    \/ \E t \in Threads : PrintAcquire(t)
    \/ \E t \in Threads : PrintAppend(t)
    \/ \E t \in Threads : PrintRelease(t)
    \/ \E t \in Threads : PrintSetTimeout(t)

\* The same system with a scheduler that does its work: the host runs every
\* callback set_timeout was given and lets it run to its end, and a thread
\* that has called print is let run to the end of the call. Nothing makes a
\* caller call print.
SpecFair == InitBound /\ [][Next]_vars /\ WF_vars(ServiceStep) /\ WF_vars(PrintProgress)

-----------------------------------------------------------------------------
(* The queue: claims C1, C2, C3, C10 *)

Ids(s) == [i \in 1..Len(s) |-> s[i].id]

\* positions of service_text_queue between its popleft and the end of send_to_file
SendPcs == {"send_read_only_off", "send_append", "send_read_only_on", "send_move_to"}
AfterPopPcs == SendPcs \cup {"svc_finally"}

\* the fragments popped and not yet given to the sink
InFlight == {r \in Runners : pc[r] \in {"send_read_only_off", "send_append"}}
InFlightIds == IF InFlight = {} THEN <<>> ELSE <<characters[CHOOSE r \in InFlight : TRUE].id>>

Quiescent ==
    /\ \A p \in Procs : pc[p] = "idle"
    /\ \A h \in Handlers : timeouts[h] = 0

\* C1: under every interleaving of print calls and drain steps the sinks receive
\* the fragments in the order of their appends, each once and as a write of its
\* own: the writes made, then the fragment being written, then the deque, are the
\* appended fragments in order; every write is the normalized text of its own
\* fragment; and when nothing is left to run there are as many writes as appends.
FifoDelivery ==
    /\ Cardinality(InFlight) <= 1
    /\ Ids(written) \o InFlightIds \o Ids(text_queue) = Ids(enqueued)
    /\ \A i \in 1..Len(written) :
          i <= Len(enqueued) /\ written[i].chars = Normalize(enqueued[i].chars)
    /\ Quiescent => Len(written) = Len(enqueued)

\* two fragments were appended and both were written, in two writes
FifoDeliveryWitness ==
    /\ Quiescent
    /\ Len(enqueued) >= 2
    /\ Len(written) = Len(enqueued)
    /\ text_queue = <<>>

\* C2: no two service_text_queue invocations are both between their pop and the
\* end of their sink write.
SingleFlight == Cardinality({r \in Runners : pc[r] \in AfterPopPcs}) <= 1

\* one callback is writing while another has started and waits for the lock
SingleFlightWitness ==
    \E r1, r2 \in Runners :
        r1 # r2 /\ pc[r1] = "send_append" /\ pc[r2] = "svc_acquire"

EmptyDrainNoop ==
    [][\A r \in Runners :
         /\ (pc[r] = "svc_pop" /\ Len(text_queue) = 0 /\ pc'[r] # pc[r]) =>
               /\ pc'[r] = "svc_return"
               /\ UNCHANGED <<text_queue, timeouts, written, views, text_queue_lock>>
         /\ (pc[r] = "svc_return" /\ pc'[r] # pc[r]) =>
               /\ pc'[r] = "idle"
               /\ text_queue_lock' = Free
               /\ UNCHANGED <<text_queue, timeouts, written, views>>]_vars

\* a callback has found the deque empty
EmptyDrainNoopWitness ==
    \E r \in Runners : pc[r] = "svc_return" /\ text_queue = <<>> /\ written # <<>>

-----------------------------------------------------------------------------
(* Handlers as constructed, lines 46-55, in a window that shows the user's file *)

InitConstructed ==
    /\ output_view = [h \in Handlers |-> NoView]
    /\ name = [h \in Handlers |-> NoName]
    /\ init_text = [h \in Handlers |-> NoText]
    /\ window = [h \in Handlers |-> "None"]
    /\ session = <<>>
    /\ views = [v \in AllViews |-> IF v = SketchView THEN OpenView ELSE AbsentView]
    /\ groups = << {SketchView} >>

-----------------------------------------------------------------------------
(* The newline normalization of send_to_file, line 174, taken alone: claim C4 *)

Alphabet == {CR, LF, BS, "n", "a"}
Strings == UNION {[1..k -> Alphabet] : k \in 0..MaxLen}

InitNorm ==
    /\ InitProcs /\ InitQueue /\ InitConstructed /\ ProjUnused
    /\ norm_in \in Strings
    /\ norm_out = <<>>

\* the normalization applied to the text, then to its own result
NormalizeAgain ==
    /\ Len(norm_out) < 2
    /\ norm_out' = Append(norm_out,
                          Normalize(IF norm_out = <<>> THEN norm_in ELSE norm_out[Len(norm_out)]))
    /\ UNCHANGED <<msgVars, handlerVars, hostVars, procVars, histVars, norm_in, projVars>>

NextNorm == NormalizeAgain

SpecNorm == InitNorm /\ [][NextNorm]_vars

\* the places where a is directly followed by b
Pairs(s, a, b) == {i \in 1..(Len(s) - 1) : s[i] = a /\ s[i + 1] = b}

\* C4: normalizing twice gives what normalizing once gives; the result holds no
\* carriage return; and every CR LF pair and every backslash-n pair of the input
\* becomes one newline (the result is shorter by one character per pair).
NormalizeIdempotent ==
    /\ Len(norm_out) = 2 => norm_out[2] = norm_out[1]
    /\ Len(norm_out) >= 1 =>
          /\ \A i \in 1..Len(norm_out[1]) : norm_out[1][i] # CR
          /\ Len(norm_out[1]) = Len(norm_in) - Cardinality(Pairs(norm_in, CR, LF))
                                              - Cardinality(Pairs(norm_in, BS, "n"))
          /\ norm_in = <<CR, LF>> => norm_out[1] = <<LF>>

\* a text with a CR LF pair and a bare CR has been normalized twice
NormalizeIdempotentWitness ==
    /\ norm_in = <<CR, LF, CR>>
    /\ Len(norm_out) = 2
    /\ norm_out[1] = <<LF, LF>>

-----------------------------------------------------------------------------
(* ProjectCheck, project_check.py *)

\* A path is a sequence of components: the directories, then the file name.
\* A component is a string.
MaxDepth == 2       \* directories above the active file
Src == <<"s", "r", "c">>
DirNames == { <<"p">>, Src, <<"x", "s", "r", "c">> }
FileNames == { <<"a">>, <<"s", "r", "c", "2">> }
DirPaths == UNION {[1..k -> DirNames] : k \in 1..MaxDepth}
FilePaths == {d \o <<f>> : d \in DirPaths, f \in FileNames}
ClosedFile == <<>>                \* no view shows the file

\* the path as the one string Python holds: "/" before every component
RECURSIVE PathString(_)
PathString(p) ==
    IF p = <<>> THEN <<>> ELSE <<"/">> \o Head(p) \o PathString(Tail(p))

\* sub in s, for strings
Contains(s, sub) == \E i \in 1..(Len(s) + 1) : StartsWith(s, i, sub)

\* os.path.dirname, os.path.basename, os.path.join on a path of components
Dirname(p) == SubSeq(p, 1, Len(p) - 1)
Basename(p) == p[Len(p)]
Join(folder, new_folder, file_name) == folder \o <<new_folder>> \o <<file_name>>

\* add_folder_to_filepath, lines 149-166
add_folder_to_filepath(src_path, new_folder) ==
    Join(Dirname(src_path), new_folder, Basename(src_path))

\* the file extensions get_file_extension may give
Extensions == {"ino", "pde", "cpp", "c", ".S", "S", "INO", "C", "py", "txt", ""}

\* a faulty variant: the assembler extension without its dot
is_iot_S(e) ==
    LET accepted == <<"ino", "pde", "cpp", "c", "S">>
    IN  \E i \in 1..Len(accepted) : accepted[i] = e

\* is_iot, lines 37-42
is_iot(e) ==
    LET accepted == <<"ino", "pde", "cpp", "c", ".S">>
    IN  \E i \in 1..Len(accepted) : accepted[i] = e

\* The config file platformio.ini: a set of <<section, key, value>>
OtherPath == << <<"o">> >>
ConfigFiles ==
    { {},
      { <<"platformio", "src_dir", OtherPath>> },
      { <<"platformio", "lib_dir", OtherPath>>, <<"env", "board", OtherPath>> } }
ProjectPaths == { << <<"p">> >>, << <<"p">>, <<"q">> >> }

InitProject ==
    /\ InitProcs /\ InitQueue /\ InitConstructed /\ NormUnused
    /\ pio_structure \in BOOLEAN
    /\ file_path \in FilePaths
    /\ project_path \in ProjectPaths
    /\ \E src_exists, dst_exists \in BOOLEAN :
          /\ dst_exists => src_exists
          /\ dirs = {SubSeq(file_path, 1, k) : k \in 1..(Len(file_path) - 1)}
                    \cup (IF src_exists THEN {Dirname(file_path) \o <<Src>>} ELSE {})
          /\ files = {file_path}
                    \cup (IF dst_exists THEN {add_folder_to_filepath(file_path, Src)} ELSE {})
    /\ open_file = file_path
    /\ config \in ConfigFiles
    /\ ext \in Extensions
    /\ iot = "unset"
    /\ ppc = "idle"

msgUnchanged == UNCHANGED <<msgVars, handlerVars, hostVars, procVars, histVars, normVars>>

\* is_iot, lines 28-42
IsIot ==
    /\ ppc = "idle"
    /\ iot = "unset"
    /\ iot' = IF is_iot(ext) THEN "True" ELSE "False"
    /\ msgUnchanged
    /\ UNCHANGED <<pio_structure, file_path, project_path, files, dirs, open_file,
                   config, ext, ppc>>

\* structurize_project, lines 75-82: read the option, test 'src' not in
\* file_path, close the file's view
StructurizeStart ==
    /\ ppc = "idle"
    /\ IF pio_structure /\ ~Contains(PathString(file_path), Src)
       THEN /\ open_file' = ClosedFile
            /\ ppc' = "move"
       ELSE /\ ppc' = "override_src"
            /\ UNCHANGED open_file
    /\ msgUnchanged
    /\ UNCHANGED <<pio_structure, file_path, project_path, files, dirs, config, ext, iot>>

\* a faulty variant: a failed move is caught and the call goes on to override_src
StructurizeMoveCaught ==
    /\ ppc = "move"
    /\ LET dst == add_folder_to_filepath(file_path, Src) IN
       \/ /\ Dirname(dst) \in dirs
          /\ files' = (files \ {file_path}) \cup {dst}
          /\ ppc' = "reopen"
       \/ /\ Dirname(dst) \notin dirs \/ dst \in files
          /\ ppc' = "override_src"
          /\ UNCHANGED files
    /\ msgUnchanged
    /\ UNCHANGED <<pio_structure, file_path, project_path, dirs, open_file, config, ext, iot>>

\* lines 84-85: dst = add_folder_to_filepath(file_path, 'src'); move(file_path, dst).
\* shutil.move raises when the directory of dst does not exist; an existing
\* file dst is replaced or makes the move raise, as the platform has it
StructurizeMove ==
    /\ ppc = "move"
    /\ LET dst == add_folder_to_filepath(file_path, Src) IN
       \/ /\ Dirname(dst) \in dirs
          /\ files' = (files \ {file_path}) \cup {dst}
          /\ ppc' = "reopen"
       \/ /\ Dirname(dst) \notin dirs \/ dst \in files
          /\ ppc' = "raised"
          /\ UNCHANGED files
    /\ msgUnchanged
    /\ UNCHANGED <<pio_structure, file_path, project_path, dirs, open_file, config, ext, iot>>

\* lines 87-88: self.window.open_file(dst); return
StructurizeReopen ==
    /\ ppc = "reopen"
    /\ open_file' = add_folder_to_filepath(file_path, Src)
    /\ ppc' = "done"
    /\ msgUnchanged
    /\ UNCHANGED <<pio_structure, file_path, project_path, files, dirs, config, ext, iot>>

\* ConfigObj: config[section] = source replaces the whole section
SetSection(cfg, section, source) ==
    {e \in cfg : e[1] # section} \cup {<<section, kv[1], kv[2]>> : kv \in source}

\* a faulty variant: config.write() is left out
OverrideSrcNoWrite ==
    /\ ppc = "override_src"
    /\ ppc' = "done"
    /\ msgUnchanged
    /\ UNCHANGED <<pio_structure, file_path, project_path, files, dirs, open_file,
                   config, ext, iot>>

\* override_src, lines 99-107: load the config, set the section platformio to
\* {'src_dir': project path}, write the file; the write may fail
OverrideSrc ==
    /\ ppc = "override_src"
    /\ \/ /\ config' = SetSection(config, "platformio", {<<"src_dir", project_path>>})
          /\ ppc' = "done"
       \/ /\ ppc' = "raised"
          /\ UNCHANGED config
    /\ msgUnchanged
    /\ UNCHANGED <<pio_structure, file_path, project_path, files, dirs, open_file, ext, iot>>

NextProject ==
    \/ IsIot
    \/ StructurizeStart
    \/ StructurizeMove
    \/ StructurizeReopen
    \/ OverrideSrc

SpecProject == InitProject /\ [][NextProject]_vars

\* the file lies under a directory named src
UnderSrcDir(p) == \E i \in 1..(Len(p) - 1) : p[i] = Src

\* C6: with strict structure on, a file that is not under a directory src has
\* been moved to dirname/src/basename when structurize_project returns: the new
\* path exists, the old one does not, and the view shows the new path.
StrictMovesToSrc ==
    (ppc = "done" /\ pio_structure /\ ~UnderSrcDir(file_path)) =>
        /\ open_file = Dirname(file_path) \o <<Src, Basename(file_path)>>
        /\ open_file \in files
        /\ file_path \notin files

\* C7: with strict structure off, when structurize_project has returned the
\* config file holds platformio.src_dir = the project path, and no other value
\* of that key, whatever the file held before.
SrcDirIsProjectPath ==
    (ppc = "done" /\ ~pio_structure) =>
        /\ <<"platformio", "src_dir", project_path>> \in config
        /\ \A e \in config :
              (e[1] = "platformio" /\ e[2] = "src_dir") => e[3] = project_path

\* the config held another src_dir or other sections before the call
SrcDirIsProjectPathWitness ==
    /\ ppc = "done" /\ ~pio_structure
    /\ <<"platformio", "src_dir", project_path>> \in config
    /\ <<"env", "board", OtherPath>> \in config

\* C8: is_iot is true exactly for the extensions ino, pde, cpp, c and .S.
IsIotAccepts ==
    iot # "unset" => (iot = "True" <=> ext \in {"ino", "pde", "cpp", "c", ".S"})

\* is_iot has accepted the literal .S
IsIotAcceptsWitness == iot = "True" /\ ext = ".S"

-----------------------------------------------------------------------------
(* The panel life cycle: panel_name, initial_text, create_panel, on_pre_close, *)
(* on_close, lines 57-121 and 180-242, all on the host's UI thread             *)

MaxCalls == 5       \* calls of the panel operations

\* str.strip(chars): characters of the set chars are dropped at both ends
RECURSIVE LStrip(_, _)
LStrip(s, chars) ==
    IF s # <<>> /\ Head(s) \in chars THEN LStrip(Tail(s), chars) ELSE s
RECURSIVE RStrip(_, _)
RStrip(s, chars) ==
    IF s # <<>> /\ s[Len(s)] \in chars THEN RStrip(SubSeq(s, 1, Len(s) - 1), chars) ELSE s
Strip(s, chars) == RStrip(LStrip(s, chars), chars)

\* the truth value Python gives a string or None
Truthy(s) == s # NoName /\ s # <<>>

\* the texts panel_name and initial_text are called with
RawNames == { <<"A">>, <<"A", BS, "n">>, <<"B">>, <<"n">> }
RawTexts == { <<"k">>, <<>> }

\* panel_name, lines 68-77
PanelName(h, raw) ==
    /\ ncalls < MaxCalls
    /\ name' = [name EXCEPT ![h] =
                  Strip(Translate([type |-> "str", chars |-> raw]).chars, {BS, "n"})]
    /\ ncalls' = ncalls + 1
    /\ last' = <<"panel_name", h>>
    /\ UNCHANGED <<msgVars, output_view, init_text, window, session, hostVars,
                   procVars, enqueued, written, nprints, nscheduled, owner, normVars, projVars>>

\* initial_text, lines 57-66
InitialText(h, raw) ==
    /\ ncalls < MaxCalls
    /\ init_text' = [init_text EXCEPT ![h] = Translate([type |-> "str", chars |-> raw]).chars]
    /\ ncalls' = ncalls + 1
    /\ last' = <<"initial_text", h>>
    /\ UNCHANGED <<msgVars, output_view, name, window, session, hostVars,
                   procVars, enqueued, written, nprints, nscheduled, owner, normVars, projVars>>

\* findInOpendView(name): the open views of the windows whose name is the name
\* asked for (window.views() does not list output panels)
FoundViews(n) ==
    {v \in AllViews \ {DeviotView} : views[v].open /\ views[v].name = n}

\* the view window.new_file() creates next
FreshViews == {v \in FileViews : ~views[v].created /\
                  \A w \in FileViews : w[2] < v[2] => views[w].created}

\* lines 93-99 of create_panel: print the initial text (print, lines 131-146,
\* with nothing else running), then register the handler under its name
PrintInitAndRegister(h) ==
    /\ IF Truthy(init_text[h])
       THEN LET frag == Decode([id |-> nprints + 1] @@
                               Translate([type |-> "str", chars |-> init_text[h]]))
            IN  /\ text_queue' = Append(text_queue, frag)
                /\ enqueued' = Append(enqueued, frag)
                /\ nprints' = nprints + 1
                /\ timeouts' = [timeouts EXCEPT ![h] = @ + 1]
                /\ nscheduled' = nscheduled + 1
                /\ owner' = Append(owner, h)
       ELSE UNCHANGED <<text_queue, enqueued, nprints, timeouts, nscheduled, owner>>
    /\ session' = IF Truthy(name[h]) THEN (name[h] :> h) @@ session ELSE session

\* create_panel with recover_panel finding the views `found`
CreatePanelWith(h, in_file, found) ==
    /\ ncalls < MaxCalls
    /\ text_queue_lock = Free
    /\ ncalls' = ncalls + 1
    /\ last' = <<"create_panel", h>>
    /\ window' = [window EXCEPT ![h] = "w"]
    /\ \/ \* line 88: the handler has a view already
          /\ output_view[h] # NoView
          /\ UNCHANGED <<output_view, hostVars>>
          /\ PrintInitAndRegister(h)
       \/ \* lines 180-189: recover_panel finds an open view of that name
          /\ output_view[h] = NoView
          /\ \E v \in found : output_view' = [output_view EXCEPT ![h] = v]
          /\ UNCHANGED hostVars
          /\ PrintInitAndRegister(h)
       \/ \* lines 116-121: the output panel 'deviot' of the window
          /\ output_view[h] = NoView /\ found = {} /\ ~in_file
          /\ output_view' = [output_view EXCEPT ![h] = DeviotView]
          /\ views' = [views EXCEPT ![DeviotView] = IF @.created THEN @ ELSE OpenView]
          /\ UNCHANGED groups
          /\ PrintInitAndRegister(h)
       \/ \* lines 191-216: new_file_panel: a new pane with a new view in it
          /\ output_view[h] = NoView /\ found = {} /\ in_file
          /\ \E v \in FreshViews :
                /\ groups' = Append(groups, {v})
                /\ IF name[h] = NoName
                   THEN \* view.set_name(None) raises: the view stays unnamed and unbound
                        /\ views' = [views EXCEPT ![v] = OpenView]
                        /\ UNCHANGED <<output_view, session, text_queue, enqueued,
                                       nprints, timeouts, nscheduled, owner>>
                   ELSE /\ views' = [views EXCEPT ![v] = [OpenView EXCEPT !.name = name[h]]]
                        /\ output_view' = [output_view EXCEPT ![h] = v]
                        /\ PrintInitAndRegister(h)
    /\ UNCHANGED <<text_queue_lock, name, init_text, procVars, written, normVars, projVars>>

\* a faulty variant: create_panel never recovers an open view
CreatePanelNoRecover(h, in_file) == CreatePanelWith(h, in_file, {})

\* create_panel, lines 79-99
CreatePanel(h, in_file) == CreatePanelWith(h, in_file, FoundViews(name[h]))

\* the user closes a view: the host takes it out of its group
HostClose(v) ==
    /\ v \in FileViews \cup {SketchView}
    /\ views[v].open
    /\ views' = [views EXCEPT ![v].open = FALSE]
    /\ groups' = [i \in 1..Len(groups) |-> groups[i] \ {v}]
    /\ UNCHANGED <<msgVars, handlerVars, procVars, histVars, normVars, projVars>>

\* on_pre_close, lines 218-219: self.window = view.window()
OnPreClose(h, v) ==
    /\ ncalls < MaxCalls
    /\ views[v].open
    /\ window' = [window EXCEPT ![h] = "w"]
    /\ ncalls' = ncalls + 1
    /\ last' = <<"on_pre_close", h>>
    /\ UNCHANGED <<msgVars, output_view, name, init_text, session, hostVars,
                   procVars, enqueued, written, nprints, nscheduled, owner, normVars, projVars>>

\* check_empty_panel, lines 229-242: the groups without views
EmptyGroups == {i \in 1..Len(groups) : groups[i] = {}}

\* the command destroy_pane on the group check_empty_panel has focused: the
\* first empty group goes, unless it is the window's only group
DestroyPane ==
    LET n == CHOOSE i \in EmptyGroups : \A j \in EmptyGroups : i <= j
    IN  IF Len(groups) > 1
        THEN [i \in 1..(Len(groups) - 1) |-> IF i < n THEN groups[i] ELSE groups[i + 1]]
        ELSE groups

\* on_close, lines 221-227, called for a view the host has closed
OnClose(h, v) ==
    /\ ncalls < MaxCalls
    /\ views[v].created /\ ~views[v].open
    /\ ncalls' = ncalls + 1
    /\ last' = <<"on_close", h>>
    /\ views' = [views EXCEPT ![v].on_close = TRUE]
    /\ IF views[v].name \notin DOMAIN session
       THEN UNCHANGED <<groups, window>>                      \* line 223
       ELSE IF window[h] = "None"
            THEN UNCHANGED <<groups, window>>                 \* None.num_groups() raises
            ELSE IF EmptyGroups # {}
                 THEN /\ groups' = DestroyPane
                      /\ window' = [window EXCEPT ![h] = "None"]
                 ELSE UNCHANGED <<groups, window>>
    /\ UNCHANGED <<msgVars, output_view, name, init_text, session,
                   procVars, enqueued, written, nprints, nscheduled, owner, normVars, projVars>>

InitPanel == InitProcs /\ InitQueue /\ InitConstructed /\ NormUnused /\ ProjUnused

NextPanel ==
    \/ \E h \in Handlers, raw \in RawNames : PanelName(h, raw)
    \/ \E h \in Handlers, raw \in RawTexts : InitialText(h, raw)
    \/ \E h \in Handlers, in_file \in BOOLEAN : CreatePanel(h, in_file)
    \/ \E v \in AllViews : HostClose(v)
    \/ \E h \in Handlers, v \in AllViews : OnPreClose(h, v)
    \/ \E h \in Handlers, v \in AllViews : OnClose(h, v)

SpecPanel == InitPanel /\ [][NextPanel]_vars

-----------------------------------------------------------------------------
(* The panel life cycle: claims C5, C9 *)

\* the name is registered in the session mapping and an open view carries it
TrackedOpen(n) == n \in DOMAIN session /\ FoundViews(n) # {}

\* C5 as the claim states it: create_panel for a name whose panel is open and
\* tracked, on the registered handler or on another handler of that name,
\* creates no panel, keeps or recovers the open sink, and leaves the session
\* mapping giving the same handler for the name as before the call.
RecoverKeepsHandler ==
    [][\A h \in Handlers :
         (last' = <<"create_panel", h>> /\ ncalls' = ncalls + 1 /\ TrackedOpen(name[h])) =>
            /\ \A v \in AllViews : views'[v].created = views[v].created
            /\ groups' = groups
            /\ IF output_view[h] # NoView
               THEN output_view'[h] = output_view[h]
               ELSE output_view'[h] \in FoundViews(name[h])
            /\ session'[name[h]] = session[name[h]]]_vars

\* C5 amended: such a call creates no panel; a handler that holds a sink keeps
\* it and a handler that holds none binds the open view of that name; the
\* session mapping then gives the handler the call was made on, which is the
\* handler it gave before only when the call is made on that same handler.
RecoverRegistersCaller ==
    [][\A h \in Handlers :
         (last' = <<"create_panel", h>> /\ ncalls' = ncalls + 1 /\ TrackedOpen(name[h])) =>
            /\ \A v \in AllViews : views'[v].created = views[v].created
            /\ groups' = groups
            /\ IF output_view[h] # NoView
               THEN output_view'[h] = output_view[h]
               ELSE output_view'[h] \in FoundViews(name[h])
            /\ DOMAIN session' = DOMAIN session
            /\ session'[name[h]] = h
            /\ \A n \in DOMAIN session : n # name[h] => session'[n] = session[n]
            /\ session[name[h]] = h => session' = session]_vars

\* a second handler of the same name has recovered the view the first one
\* created, and is now the handler the session mapping gives
RecoverRegistersCallerWitness ==
    \E h1, h2 \in Handlers :
        /\ h1 # h2
        /\ Truthy(name[h1]) /\ name[h1] = name[h2]
        /\ output_view[h1] \in FileViews /\ output_view[h2] = output_view[h1]
        /\ views[output_view[h1]].open
        /\ Cardinality({v \in AllViews : views[v].created /\ views[v].name = name[h1]}) = 1
        /\ last = <<"create_panel", h2>>
        /\ session[name[h1]] = h2

\* C9: a name is a key of the session mapping only while its panel is open: the
\* sink of the registered handler is open, or its close has not been reported
\* by on_close yet.
SessionOnlyWhileOpen ==
    \A n \in DOMAIN session :
        LET v == output_view[session[n]]
        IN  v # NoView /\ (views[v].open \/ ~views[v].on_close)


-----------------------------------------------------------------------------
(* The drain chain: claims C11, C12, C13 *)

\* C11: a drain step that pops a fragment reads, in the step of the pop and
\* holding the lock it acquired, whether the deque is empty after that pop; it
\* goes on to its end keeping the reading and scheduling nothing, and at its end
\* gives set_timeout one more callback of its handler exactly when the deque
\* was not empty after the pop, and none when it was
RearmIffMoreAfterPop ==
    [][\A r \in Runners :
         /\ (pc[r] = "svc_pop" /\ pc'[r] = "send_read_only_off") =>
               /\ text_queue_lock = r /\ text_queue_lock' = r
               /\ text_queue' = Tail(text_queue)
               /\ is_empty'[r] = (Len(text_queue') = 0)
         /\ (pc[r] \in AfterPopPcs /\ pc'[r] # pc[r]) =>
               /\ pc'[r] \in AfterPopPcs \cup {"svc_rearm"}
               /\ is_empty'[r] = is_empty[r]
               /\ nscheduled' = nscheduled /\ timeouts' = timeouts
         /\ (pc[r] = "svc_rearm" /\ pc'[r] = "idle") =>
               /\ nscheduled' = nscheduled + (IF is_empty[r] THEN 0 ELSE 1)
               /\ timeouts' = [timeouts EXCEPT ![self[r]] =
                                                @ + (IF is_empty[r] THEN 0 ELSE 1)]
      ]_vars

\* a drain step has re-armed and another one, which emptied the deque, is at
\* its end and will not
RearmIffMoreAfterPopWitness ==
    /\ nscheduled > nprints
    /\ \E r \in Runners : pc[r] = "svc_rearm" /\ is_empty[r] /\ text_queue = <<>>

\* the deque is empty, nothing runs or is scheduled, and the sinks have received
\* every fragment that was appended to the deque
Delivered ==
    /\ Quiescent
    /\ text_queue = <<>>
    /\ Ids(written) = Ids(enqueued)

\* C12: with every sink bound and a scheduler that runs every callback it was
\* given, the print calls made, which are finitely many, are followed by a
\* state from which on the deque is empty, every appended fragment has been
\* written and no callback is scheduled or running; and at no time has
\* set_timeout been given more than two callbacks per appended fragment
DrainTerminates ==
    /\ [](nscheduled <= 2 * Len(enqueued))
    /\ <>[]Delivered

\* all the print calls were made, a drain step re-armed, and all is delivered
DrainTerminatesWitness ==
    /\ Delivered
    /\ Len(enqueued) = MaxPrints
    /\ nscheduled > nprints

\* C13: a step of a print call leaves the sinks and what they received alone;
\* of the deque and the scheduler it changes this only: one step, taken while
\* the caller holds the lock, appends the call's fragment to the deque, and
\* the call's last step, after the release, gives set_timeout one callback.
\* And whatever step changes the deque, an append or a popleft, is the step of
\* the one that holds the lock before and after it.
PrintOnlyEnqueues ==
    [][/\ \A t \in Threads : pc'[t] # pc[t] =>
            /\ views' = views /\ written' = written /\ groups' = groups
            /\ IF pc[t] = "print_append"
               THEN /\ text_queue_lock = t /\ text_queue_lock' = t
                    /\ text_queue' = Append(text_queue, text'[t])
                    /\ text'[t].id = text[t].id
               ELSE text_queue' = text_queue
            /\ IF pc[t] = "print_set_timeout"
               THEN /\ text_queue_lock # t
                    /\ nscheduled' = nscheduled + 1
                    /\ timeouts' = [timeouts EXCEPT ![self[t]] = @ + 1]
               ELSE nscheduled' = nscheduled /\ timeouts' = timeouts
       /\ text_queue' # text_queue =>
            \E p \in Procs :
               /\ pc'[p] # pc[p]
               /\ text_queue_lock = p /\ text_queue_lock' = p
               /\ \/ p \in Threads /\ Len(text_queue') = Len(text_queue) + 1
                  \/ p \in Runners /\ text_queue' = Tail(text_queue)
      ]_vars

\* two print calls have ended, one from each thread: two fragments appended,
\* two callbacks given to set_timeout, nothing written
PrintOnlyEnqueuesWitness ==
    /\ \A t \in Threads : pc[t] = "idle"
    /\ Len(enqueued) = 2 /\ nscheduled = 2 /\ written = <<>>
    /\ Len(text_queue) = 2

-----------------------------------------------------------------------------
(* send_to_file and the sinks: claims C14, C17 *)

\* the sinks the handlers are bound to
Sinks == {output_view[h] : h \in Handlers} \ {NoView}

\* a send_to_file on view v has begun and not ended
Writing(v) == \E r \in Runners : pc[r] \in SendPcs /\ output_view[self[r]] = v

\* the four steps of send_to_file in their order, the append reaching a view
\* only while the view is not read-only
WriteSteps ==
    [][\A r \in Runners : pc'[r] # pc[r] =>
         LET v == output_view[self[r]] IN
         /\ pc[r] = "send_read_only_off" =>
               pc'[r] = "send_append" /\ ~views'[v].read_only /\ written' = written
         /\ pc[r] = "send_append" =>
               /\ pc'[r] = "send_read_only_on"
               /\ ~views[v].read_only /\ ~views'[v].read_only
               /\ written' = Append(written, [view |-> v, id |-> characters[r].id,
                                                chars |-> characters[r].chars])
         /\ pc[r] = "send_read_only_on" =>
               pc'[r] = "send_move_to" /\ views'[v].read_only /\ written' = written
         /\ pc[r] = "send_move_to" =>
               pc'[r] = "svc_finally" /\ views'[v].at_eof /\ written' = written
         /\ pc[r] \notin SendPcs => written' = written
      ]_vars

\* C14: a fragment write is the steps set read-only off, append, set read-only
\* on, move the cursor to the end, in this order; a view is appended to only
\* while it is not read-only; and a sink on which no write is in progress is
\* read-only
ReadOnlyOutsideWrites ==
    /\ WriteSteps
    /\ [](\A v \in Sinks : ~Writing(v) => views[v].read_only)

\* C17: with each handler bound to a sink of its own, every fragment a sink
\* has received was enqueued by a print of the handler bound to that sink
OwnSinkOnly ==
    \A i \in 1..Len(written) : written[i].view = output_view[owner[written[i].id]]

-----------------------------------------------------------------------------
(* structurize_project and override_src: claims C15, C16, C20 *)

\* C15: on the relocation path the view is closed first, with the file still
\* in place; then the file is moved, the view still closed; then the view is
\* opened on the new path. The config file is not written on this path. When
\* the move raises, the call ends there: the file is where it was, the view
\* stays closed, the config file is as it was, and nothing follows.
RelocationOrder ==
    [][LET dst == add_folder_to_filepath(file_path, Src) IN
       /\ (ppc = "idle" /\ ppc' = "move") =>
             open_file' = ClosedFile /\ files' = files /\ config' = config
       /\ ppc = "move" =>
             /\ open_file = ClosedFile /\ open_file' = ClosedFile /\ config' = config
             /\ \/ ppc' = "reopen" /\ file_path \notin files' /\ dst \in files'
                \/ ppc' = "raised" /\ files' = files
       /\ ppc = "reopen" =>
             ppc' = "done" /\ open_file' = dst /\ files' = files /\ config' = config
       /\ ppc \in {"raised", "done"} => ppc' = ppc /\ open_file' = open_file
                                       /\ files' = files /\ config' = config
      ]_vars

\* the move has failed: the file is in place, its view is closed
RelocationOrderWitness ==
    /\ ppc = "raised" /\ pio_structure
    /\ open_file = ClosedFile /\ file_path \in files

\* C16: structurize_project writes the config file only with the strict
\* structure option off: with the option on no step changes the config file,
\* the active file being moved to src or being under src already
StrictLeavesConfig ==
    [][pio_structure => config' = config]_vars

\* C20: a call of override_src that writes the config file changes the key
\* src_dir of the section platformio and nothing else: every other entry of
\* the file, in platformio or in another section, is in the file afterwards,
\* the one entry that may be new is platformio.src_dir = the project path, and
\* a second call with the same project path would leave the file as it is
OverrideSrcFrame ==
    [][(ppc = "override_src" /\ ppc' = "done") =>
         /\ \A e \in config : ~(e[1] = "platformio" /\ e[2] = "src_dir") => e \in config'
         /\ \A e \in config' : e \in config \/ e = <<"platformio", "src_dir", project_path>>
         /\ SetSection(config', "platformio", {<<"src_dir", project_path>>}) = config'
      ]_vars

-----------------------------------------------------------------------------
(* A handler without a sink: claims C18, C19 *)

\* Two handlers after __init__, create_panel called on h2 only: h1 has
\* output_view None, h2 writes to the output panel
InitUnbound ==
    /\ InitProcs /\ InitQueue /\ NormUnused /\ ProjUnused
    /\ output_view = [h \in Handlers |-> IF h = "h1" THEN NoView ELSE DeviotView]
    /\ name = [h \in Handlers |-> NoName]
    /\ init_text = [h \in Handlers |-> NoText]
    /\ window = [h \in Handlers |-> IF h = "h1" THEN "None" ELSE "w"]
    /\ session = <<>>
    /\ views = [v \in AllViews |->
                  IF v \in {DeviotView, SketchView} THEN OpenView ELSE AbsentView]
    /\ groups = << {SketchView} >>

\* print and the callbacks as in Spec; send_to_file of h1 raises at line 175
SpecUnbound == InitUnbound /\ [][Next]_vars

RECURSIVE SumTimeouts(_)
SumTimeouts(hs) ==
    IF hs = {} THEN 0
    ELSE LET h == CHOOSE x \in hs : TRUE IN timeouts[h] + SumTimeouts(hs \ {h})

\* the callbacks set_timeout holds and has not run yet
PendingCallbacks == SumTimeouts(Handlers)

NothingRunning == \A p \in Procs : pc[p] = "idle"

\* with nothing running: a fragment was popped and given to no sink
FragmentLost == NothingRunning /\ Len(enqueued) > Len(written) + Len(text_queue)

\* C18: whenever no print and no callback is running, set_timeout holds at
\* least as many callbacks as the deque holds fragments, so a deque that is
\* not empty has a drain step scheduled; also after a callback whose
\* send_to_file raised
NoFragmentStranded ==
    NothingRunning => PendingCallbacks >= Len(text_queue)

\* a callback has lost its fragment to an unset sink, the deque is not empty
\* and a callback is pending
NoFragmentStrandedWitness ==
    /\ FragmentLost
    /\ Len(text_queue) > 0
    /\ PendingCallbacks > 0

\* the positions of print and service_text_queue between acquire and release
LockedPcs == {"print_append", "print_release", "svc_pop", "svc_return", "svc_raise",
              "svc_finally"} \cup SendPcs

\* C19: the lock is held only by a print between its acquire and its release
\* or by a callback between its acquire and its finally clause, on each way
\* out of them: the end, the return on an empty deque, an error of
\* send_to_file. So the lock is free whenever nothing is running.
LockReleasedOnExit ==
    /\ text_queue_lock \in Procs \cup {Free}
    /\ \A p \in Procs : text_queue_lock = p <=> pc[p] \in LockedPcs
    /\ NothingRunning => text_queue_lock = Free

\* a callback has left through the error of send_to_file and a print after it
\* holds the lock
LockReleasedOnExitWitness ==
    /\ Len(enqueued) > Len(written) + Len(text_queue) + Cardinality(InFlight)
    /\ \A r \in Runners : pc[r] = "idle"
    /\ \E t \in Threads : text_queue_lock = t

=============================================================================
